---------------------------- MODULE Spec2Model ----------------------------
(***************************************************************************)
(* A model of airpods.py: the AirPodsMonitor class (advertisement callback, *)
(* scan session, battery decoder, status decoder, retry loop) and the       *)
(* polling loop of main() that drives it.                                   *)
(*                                                                          *)
(* Python values are represented as follows.                                *)
(*   bytes           a sequence of integers 0..255 (index i of the code is  *)
(*                   index i+1 here, see Get)                               *)
(*   str             a sequence of code points                              *)
(*   None / a value  None == << >> and Some(x) == <<x>> for every field     *)
(*                   that can hold None                                     *)
(*   dict            a record; a dict used as a map is a function           *)
(***************************************************************************)
EXTENDS Integers, Sequences, FiniteSets, TLC

VARIABLES
    debug,          \* self.debug
    found_device,   \* self.found_device
    found_data,     \* self.found_data
    pc,             \* position of the main task
    interval,       \* args.interval
    max_attempts,   \* get_status: parameter max_attempts
    attempt,        \* get_status: loop variable attempt
    hex_data,       \* get_status: the value find_airpods returned
    scanner,        \* find_airpods: state of the session's BleakScanner
    exit_path,      \* find_airpods: the path this session left by
    result,         \* the status result the current call returned
    decoder_arg,    \* the payload decode_status last handed to the decoder
    battery_in,     \* the payload of the last direct decoder call
    battery_info,   \* the value the last direct decoder call returned
    last_adv,       \* the advertisement detection_callback was last given
    first_q,        \* first qualifying payload delivered in this session
    n_qual,         \* qualifying advertisements delivered in this session
    n_adv,          \* advertisements delivered in this session
    call_qual,      \* a qualifying advertisement was delivered in this call
    calls,          \* get_status calls made so far
    sessions,       \* sessions started by the current get_status call
    backoffs,       \* back-off waits begun by the current get_status call
    windows,        \* scan windows that elapsed in this session
    leaked,         \* a scanner of an earlier session is still running
    all_failed,     \* every session of this call so far left by the except clause
    stop_requested  \* a cancellation of the main task has been requested

vars == <<debug, found_device, found_data, pc, interval, max_attempts, attempt,
          hex_data, scanner, exit_path, result, decoder_arg, battery_in,
          battery_info, last_adv, first_q, n_qual, n_adv,
          call_qual, calls, sessions, backoffs, windows, leaked, all_failed,
          stop_requested>>

---------------------------------------------------------------------------
(* Bounds of the model. *)

MaxAttempts == 3    \* largest max_attempts a caller passes
MaxCalls == 2       \* get_status calls made by the polling loop
MaxAdv == 2         \* advertisements delivered during one session

---------------------------------------------------------------------------
(* Python values. *)

None == << >>
Some(x) == <<x>>
TheVal(o) == o[1]

Get(data, i) == data[i + 1]

RECURSIVE BitAnd(_, _)
BitAnd(a, b) ==
    IF a = 0 \/ b = 0 THEN 0
    ELSE (a % 2) * (b % 2) + 2 * BitAnd(a \div 2, b \div 2)

\* monitor.MIN_RSSI as main sets it from --min-rssi (default)
MIN_RSSI == -90

AIRPODS_MANUFACTURER == 76

---------------------------------------------------------------------------
(* binascii.hexlify, bytes.decode('utf-8') and bytes.fromhex. *)

HexChar(n) == IF n < 10 THEN 48 + n ELSE 87 + n

Hexlify(data) ==
    [k \in 1..(2 * Len(data)) |->
        IF k % 2 = 1 THEN HexChar(data[(k + 1) \div 2] \div 16)
        ELSE HexChar(data[k \div 2] % 16)]

HexDigitStr == <<"0", "1", "2", "3", "4", "5", "6", "7",
                 "8", "9", "a", "b", "c", "d", "e", "f">>

ByteStr(b) == "0x" \o HexDigitStr[(b \div 16) + 1] \o HexDigitStr[(b % 16) + 1]

\* The first byte above 127 fails the decoding: the inputs hold no multi-byte
\* sequence, their only byte above 127 is 0xff, which can start none.
RECURSIVE Utf8Pos(_, _)
Utf8Pos(bs, i) ==
    IF i > Len(bs) THEN 0
    ELSE IF bs[i] >= 128 THEN i
    ELSE Utf8Pos(bs, i + 1)

Utf8Decode(bs) ==
    LET p == Utf8Pos(bs, 1) IN
    IF p = 0 THEN [ok |-> TRUE, val |-> bs, err |-> ""]
    ELSE [ok |-> FALSE, val |-> << >>,
          err |-> "'utf-8' codec can't decode byte " \o ByteStr(bs[p])
                  \o " in position " \o ToString(p - 1)
                  \o ": invalid start byte"]

IsSpace(c) == c \in {32, 9, 10, 11, 12, 13}

IsHex(c) == (c >= 48 /\ c <= 57) \/ (c >= 97 /\ c <= 102) \/ (c >= 65 /\ c <= 70)

DigitValue(c) ==
    IF c <= 57 THEN c - 48 ELSE IF c >= 97 THEN c - 87 ELSE c - 55

FromHexErr(pos) ==
    [ok |-> FALSE, val |-> << >>,
     err |-> "non-hexadecimal number found in fromhex() arg at position "
             \o ToString(pos)]

RECURSIVE FromHexAt(_, _, _)
FromHexAt(s, i, acc) ==
    IF i > Len(s) THEN [ok |-> TRUE, val |-> acc, err |-> ""]
    ELSE IF IsSpace(s[i]) THEN FromHexAt(s, i + 1, acc)
    ELSE IF ~IsHex(s[i]) THEN FromHexErr(i - 1)
    ELSE IF i + 1 > Len(s) \/ ~IsHex(s[i + 1]) THEN FromHexErr(i)
    ELSE FromHexAt(s, i + 2,
                   Append(acc, 16 * DigitValue(s[i]) + DigitValue(s[i + 1])))

FromHex(s) == FromHexAt(s, 1, << >>)

---------------------------------------------------------------------------
(* decode_airpods_max_battery. *)

\* the high nibble taken for the low one
BatteryValueHighNibble(data) == Get(data, 12) \div 16

\* the mask forgotten: the whole byte is reported
BatteryValueUnmasked(data) == Get(data, 12)

BatteryValue(data) == BitAnd(Get(data, 12), 15)

Charging(data) == BitAnd(Get(data, 14), 128) # 0

\* a failed decoding reported as an empty battery
DecodeFailedZero ==
    [left |-> 0, right |-> 0, case |-> None,
     charging |-> [left |-> FALSE, right |-> FALSE, case |-> None]]

DecodeFailed ==
    [left |-> -1, right |-> -1, case |-> None,
     charging |-> [left |-> FALSE, right |-> FALSE, case |-> None]]

\* data[12] and data[14] raise IndexError on a shorter payload, and the
\* except clause returns the sentinel.
decode_airpods_max_battery(data) ==
    IF Len(data) > 12 /\ Len(data) > 14
    THEN [left |-> BatteryValue(data), right |-> BatteryValue(data),
          case |-> None,
          charging |-> [left |-> Charging(data), right |-> Charging(data),
                        case |-> None]]
    ELSE DecodeFailed

---------------------------------------------------------------------------
(* decode_status. *)

\* the marker byte not checked
StatusAcceptsAnyMarker(data) == Len(data) = 27

StatusAccepts(data) == Len(data) = 27 /\ Get(data, 0) = 18

StatusOk(battery, text, dbg, now) ==
    [status |-> 1,
     model |-> "AirPods Max",
     battery |-> [left |-> battery.left, right |-> battery.right,
                  case |-> None],
     charging |-> battery.charging,
     timestamp |-> now,
     raw_data |-> IF dbg THEN Some(text) ELSE None]

\* the message stored under another key
StatusErrorNoError(msg) == [status |-> 0, message |-> msg]

StatusError(msg) == [status |-> 0, error |-> msg]

\* The payload decode_status hands to the decoder for hex_data h, or None
\* when it returns without calling it.
DecoderCall(h) ==
    LET t == Utf8Decode(h) IN
    IF ~t.ok THEN None
    ELSE LET d == FromHex(t.val) IN
         IF d.ok /\ StatusAccepts(d.val) THEN Some(d.val) ELSE None

decode_status(h, dbg, now) ==
    LET t == Utf8Decode(h) IN
    IF ~t.ok THEN StatusError(t.err)
    ELSE LET d == FromHex(t.val) IN
         IF ~d.ok THEN StatusError(d.err)
         ELSE IF StatusAccepts(d.val)
              THEN StatusOk(decode_airpods_max_battery(d.val), t.val, dbg, now)
              ELSE StatusError("Unsupported device type")

NotFound == StatusError("AirPods Max not found")

\* str(e) of the BrokenPipeError a print raises when the output is closed
BrokenPipe == "[Errno 32] Broken pipe"

\* What a call decode_status(h) can end with: a result, or None when an
\* exception leaves decode_status.  Without debug nothing is printed.  With
\* debug the decoder prints inside its try (lines 80, 88-90): a print that
\* raises makes the handler of line 98 return the sentinel, which
\* decode_status wraps as a status-1 result; when the print of that handler
\* (line 100) raises too, the handler of line 134 makes an error result of
\* the exception; and when its print (line 136) raises as well, the
\* exception leaves decode_status.  The handler of line 134 prints the same
\* way for hex_data that cannot be decoded.
DecodeStatusOutcomes(h, dbg, now) ==
    LET t == Utf8Decode(h)
        normal == decode_status(h, dbg, now)
    IN IF ~dbg THEN {Some(normal)}
       ELSE IF DecoderCall(h) # None
       THEN {Some(normal),
             Some(StatusOk(DecodeFailed, t.val, dbg, now)),
             Some(StatusError(BrokenPipe)),
             None}
       ELSE IF normal = StatusError("Unsupported device type")
       THEN {Some(normal)}
       ELSE {Some(normal), None}

\* main: where an exception that reaches the handler of lines 214-222
\* leaves the task: the handler breaks when the interval is 0 and waits one
\* second otherwise; when its own print raises, main ends
MainExcept(iv) == IF iv = 0 THEN {"exit"} ELSE {"error_wait", "exit"}

\* find_airpods: where the handler of lines 69-75 leaves the task: it
\* returns None to get_status; with debug it prints first (line 71), and
\* when that print raises the exception leaves find_airpods and get_status
\* and reaches the handler of main
ScanExcept(dbg, iv) == {"got"} \cup (IF dbg THEN MainExcept(iv) ELSE {})

---------------------------------------------------------------------------
(* detection_callback. *)

\* the marker byte not checked
CallbackAcceptsAnyMarker(data) == Len(data) = 27

CallbackAccepts(data) == Len(data) = 27 /\ Get(data, 0) = 18

Qualifies(adv) ==
    /\ AIRPODS_MANUFACTURER \in DOMAIN adv.manufacturer_data
    /\ CallbackAccepts(adv.manufacturer_data[AIRPODS_MANUFACTURER])

FoundDeviceAfter(dev, adv) ==
    IF Qualifies(adv) THEN Some(adv.device) ELSE dev

\* an advertisement that does not qualify clears the match
FoundDataReset(data, adv) ==
    IF Qualifies(adv) THEN Some(adv.manufacturer_data[AIRPODS_MANUFACTURER])
    ELSE None

FoundDataAfter(data, adv) ==
    IF Qualifies(adv) THEN Some(adv.manufacturer_data[AIRPODS_MANUFACTURER])
    ELSE data

---------------------------------------------------------------------------
(* find_airpods and get_status: the decisions between two awaits. *)

Truthy(o) == o # None /\ Len(TheVal(o)) > 0

SessionResult(data) ==
    IF Truthy(data) THEN Some(Hexlify(TheVal(data))) ELSE None

\* the stop step left out
AfterStopSkipped(s) == s

AfterStop(s) == IF s = "running" THEN "stopped" ELSE s

\* one attempt too many
LoopContinuesOneMore(a, m) == a <= m

LoopContinues(a, m) == a < m

\* a capture is returned only by the last attempt
ReturnsStatusAtLast(h, a, m) == h # None /\ a = m - 1

ReturnsStatus(h, a, m) == h # None

\* a back-off after the last attempt too
NeedsBackoffAlways(a, m) == a < m

NeedsBackoff(a, m) == a < m - 1

---------------------------------------------------------------------------
(* The inputs: payloads, advertisements, hex strings, clock readings. *)

MkPayload(len, b0, b12, b14, fill) ==
    [i \in 1..len |->
        IF i = 1 THEN b0
        ELSE IF i = 13 THEN b12
        ELSE IF i = 15 THEN b14
        ELSE fill]

Adv(dev, rssi, md) == [device |-> dev, rssi |-> rssi, manufacturer_data |-> md]

PayloadA == MkPayload(27, 18, 5, 128, 0)
PayloadB == MkPayload(27, 18, 15, 0, 255)
PayloadC == MkPayload(27, 18, 160, 127, 0)

AdvA == Adv("AA", -60, AIRPODS_MANUFACTURER :> PayloadA)
AdvB == Adv("BB", -95, AIRPODS_MANUFACTURER :> PayloadB)
AdvC == Adv("AA", -60, AIRPODS_MANUFACTURER :> PayloadC)
AdvShort == Adv("CC", -60, AIRPODS_MANUFACTURER :> MkPayload(26, 18, 5, 128, 0))
AdvMarker == Adv("CC", -60, AIRPODS_MANUFACTURER :> MkPayload(27, 7, 5, 128, 0))
AdvOther == Adv("DD", -60, 6 :> PayloadA)
AdvBare == Adv("DD", -60, << >>)

\* what the scanner delivers in the program, and what the callback is given
\* when it is exercised on its own
Advs == {AdvA, AdvB, AdvShort, AdvMarker, AdvOther}

ApiAdvs == Advs \cup {AdvC, AdvBare}

Clock == {"2024-01-01 00:00:00", "2024-01-01 00:00:13"}

AwaitPoints == {"start", "sleep12", "stop", "backoff", "interval",
                "error_wait"}

InSession == {"start", "sleep12", "stop"}

\* The main task has ended; the event loop still runs the tasks that were
\* ready before it closes.
Ended == {"exit", "cancelled"}

\* Synchronous code of the main task in the while loop of main (lines
\* 198-210), get_status and find_airpods included.
InTry == {"main", "for", "got", "returned"}

---------------------------------------------------------------------------
(* The program: main() polling get_status on one AirPodsMonitor. *)

Init ==
    /\ debug \in BOOLEAN
    /\ interval \in {0, 1}
    /\ found_device = None
    /\ found_data = None
    /\ pc = "main"
    /\ max_attempts = 0
    /\ attempt = 0
    /\ hex_data = None
    /\ scanner = "none"
    /\ exit_path = "none"
    /\ result = None
    /\ decoder_arg = None
    /\ battery_in = None
    /\ battery_info = None
    /\ last_adv = None
    /\ first_q = None
    /\ n_qual = 0
    /\ n_adv = 0
    /\ call_qual = FALSE
    /\ calls = 0
    /\ sessions = 0
    /\ backoffs = 0
    /\ windows = 0
    /\ leaked = FALSE
    /\ all_failed = TRUE
    /\ stop_requested = FALSE

\* main: status = await monitor.get_status(n)
CallGetStatus(n) ==
    /\ pc = "main"
    /\ calls < MaxCalls
    /\ calls' = calls + 1
    /\ max_attempts' = n
    /\ attempt' = 0
    /\ sessions' = 0
    /\ backoffs' = 0
    /\ call_qual' = FALSE
    /\ hex_data' = None
    /\ result' = None
    /\ decoder_arg' = None
    /\ pc' = "for"
    /\ all_failed' = TRUE
    /\ UNCHANGED <<stop_requested, debug, found_device, found_data, interval,
                   scanner,
                   exit_path, battery_in, battery_info, last_adv, first_q,
                   n_qual, n_adv, windows, leaked>>

\* get_status: the head of the for loop; find_airpods up to scanner.start()
ForStep ==
    /\ pc = "for"
    /\ IF LoopContinues(attempt, max_attempts)
       THEN /\ pc' = "start"
            /\ sessions' = sessions + 1
            /\ leaked' = (leaked \/ scanner = "running")
            /\ scanner' = "created"
            /\ exit_path' = "none"
            /\ hex_data' = None
            /\ last_adv' = None
            /\ first_q' = None
            /\ n_qual' = 0
            /\ n_adv' = 0
            /\ windows' = 0
            /\ UNCHANGED result
       ELSE /\ pc' = "returned"
            /\ result' = Some(NotFound)
            /\ UNCHANGED <<sessions, leaked, scanner, exit_path, hex_data,
                           last_adv, first_q, n_qual, n_adv, windows>>
    /\ UNCHANGED <<all_failed, stop_requested,
                   debug, found_device, found_data, interval, max_attempts,
                   attempt, decoder_arg, battery_in, battery_info, call_qual,
                   calls, backoffs>>

\* the scan window left out
StartOkNoWait ==
    /\ pc = "start"
    /\ scanner' = "running"
    /\ pc' = "stop"
    /\ UNCHANGED <<all_failed, stop_requested,
                   debug, found_device, found_data, interval, max_attempts,
                   attempt, hex_data, exit_path, result, decoder_arg,
                   battery_in, battery_info, last_adv, first_q, n_qual, n_adv,
                   call_qual, calls, sessions, backoffs, windows, leaked>>

\* find_airpods: await scanner.start() completes
StartOk ==
    /\ pc = "start"
    /\ scanner' = "running"
    /\ pc' = "sleep12"
    /\ UNCHANGED <<all_failed, stop_requested,
                   debug, found_device, found_data, interval, max_attempts,
                   attempt, hex_data, exit_path, result, decoder_arg,
                   battery_in, battery_info, last_adv, first_q, n_qual, n_adv,
                   call_qual, calls, sessions, backoffs, windows, leaked>>

\* a failed start ends get_status at once
StartFailsAborts ==
    /\ pc = "start"
    /\ hex_data' = None
    /\ exit_path' = "except"
    /\ result' = Some(NotFound)
    /\ pc' = "returned"
    /\ UNCHANGED <<all_failed, stop_requested,
                   debug, found_device, found_data, interval, max_attempts,
                   attempt, scanner, decoder_arg, battery_in,
                   battery_info, last_adv, first_q, n_qual, n_adv, call_qual,
                   calls, sessions, backoffs, windows, leaked>>

\* find_airpods: BleakScanner(...) itself raises (lines 56-59); the except
\* clause returns None before any await (or its debug print raises), and no
\* scanner object exists
ScannerCtorFails ==
    /\ pc = "for"
    /\ LoopContinues(attempt, max_attempts)
    /\ sessions' = sessions + 1
    /\ hex_data' = None
    /\ exit_path' = "except"
    /\ last_adv' = None
    /\ first_q' = None
    /\ n_qual' = 0
    /\ n_adv' = 0
    /\ windows' = 0
    /\ pc' \in ScanExcept(debug, interval)
    /\ UNCHANGED <<all_failed, stop_requested,
                   debug, found_device, found_data, interval, max_attempts,
                   attempt, scanner, result, decoder_arg, battery_in,
                   battery_info, call_qual, calls, backoffs, leaked>>

\* find_airpods: scanner.start() raises; the except clause returns None, or
\* its debug print raises
StartFails ==
    /\ pc = "start"
    /\ hex_data' = None
    /\ exit_path' = "except"
    /\ pc' \in ScanExcept(debug, interval)
    /\ UNCHANGED <<all_failed, stop_requested,
                   debug, found_device, found_data, interval, max_attempts,
                   attempt, scanner, result, decoder_arg, battery_in,
                   battery_info, last_adv, first_q, n_qual, n_adv, call_qual,
                   calls, sessions, backoffs, windows, leaked>>

\* detection_callback runs for an advertisement while the main task is
\* suspended at an await, or has ended.  The callback is a coroutine, which
\* the scanner runs as a task of its own.  A scanner that has been built may
\* call back from the moment start() is awaited, also when start() raises in
\* the end; a task created for an advertisement received just before stop()
\* returned runs at the next await of the main task or, when the main task
\* runs on to its end without another await, after it.
CanDeliver ==
    /\ pc \in AwaitPoints \cup Ended
    /\ scanner \in {"created", "running", "stopped"} \/ leaked
    /\ n_adv < MaxAdv

\* the bookkeeping of a delivered advertisement: the advertisements of the
\* session, the qualifying ones among them and the first of these
Delivered(adv) ==
    /\ n_adv' = n_adv + 1
    /\ last_adv' = Some(adv)
    /\ call_qual' = (call_qual \/ Qualifies(adv))
    /\ IF Qualifies(adv) /\ pc \in InSession
       THEN /\ n_qual' = n_qual + 1
            /\ first_q' = IF n_qual = 0
                          THEN Some(adv.manufacturer_data[AIRPODS_MANUFACTURER])
                          ELSE first_q
       ELSE UNCHANGED <<n_qual, first_q>>

\* With debug the callback prints (lines 34-38, 46-48) before it assigns:
\* when a print raises, the callback task ends there and nothing is recorded.
Deliver(adv) ==
    /\ CanDeliver
    /\ Delivered(adv)
    /\ \/ /\ found_device' = FoundDeviceAfter(found_device, adv)
          /\ found_data' = FoundDataAfter(found_data, adv)
       \/ /\ debug
          /\ UNCHANGED <<found_device, found_data>>
    /\ UNCHANGED <<all_failed, stop_requested,
                   debug, pc, interval, max_attempts, attempt, hex_data,
                   scanner, exit_path, result, decoder_arg, battery_in,
                   battery_info, calls, sessions, backoffs, windows, leaked>>

\* KeyboardInterrupt raised in the callback task: before line 51 nothing is
\* assigned; between lines 51 and 52 found_device is assigned, found_data is
\* not.  The interrupt leaves the event loop, and asyncio.run cancels the
\* main task where it is suspended; a main task that has ended is not
\* cancelled any more.
DeliverInterrupted(adv) ==
    /\ CanDeliver
    /\ Delivered(adv)
    /\ found_device' \in {found_device, FoundDeviceAfter(found_device, adv)}
    /\ found_data' = found_data
    /\ stop_requested' = IF pc \in Ended THEN stop_requested ELSE TRUE
    /\ pc' = IF pc \in Ended THEN pc ELSE "cancelled"
    /\ exit_path' = IF pc \in InSession THEN "cancelled" ELSE exit_path
    /\ UNCHANGED <<all_failed, debug, interval, max_attempts, attempt,
                   hex_data, scanner, result, decoder_arg, battery_in,
                   battery_info, calls, sessions, backoffs, windows, leaked>>

\* find_airpods: await asyncio.sleep(12.0) completes
WindowElapses ==
    /\ ~stop_requested
    /\ pc = "sleep12"
    /\ windows' = windows + 1
    /\ pc' = "stop"
    /\ UNCHANGED <<all_failed, stop_requested,
                   debug, found_device, found_data, interval, max_attempts,
                   attempt, hex_data, scanner, exit_path, result, decoder_arg,
                   battery_in, battery_info, last_adv, first_q, n_qual, n_adv,
                   call_qual, calls, sessions, backoffs, leaked>>

\* find_airpods: await scanner.stop() completes; lines 65-67 choose the result
StopOk ==
    /\ pc = "stop"
    /\ scanner' = AfterStop(scanner)
    /\ hex_data' = SessionResult(found_data)
    /\ exit_path' = IF SessionResult(found_data) # None THEN "captured"
                    ELSE "timedout"
    /\ pc' = "got"
    /\ all_failed' = FALSE
    /\ UNCHANGED <<stop_requested, debug, found_device, found_data, interval,
                   max_attempts,
                   attempt, result, decoder_arg, battery_in, battery_info,
                   last_adv, first_q, n_qual, n_adv, call_qual, calls,
                   sessions, backoffs, windows, leaked>>

\* find_airpods: scanner.stop() raises; the except clause returns None (or
\* its debug print raises) and the scanner is in whichever state the failed
\* stop left it
StopFails ==
    /\ pc = "stop"
    /\ scanner' \in {"running", "stopped"}
    /\ hex_data' = None
    /\ exit_path' = "except"
    /\ pc' \in ScanExcept(debug, interval)
    /\ UNCHANGED <<all_failed, stop_requested,
                   debug, found_device, found_data, interval, max_attempts,
                   attempt, result, decoder_arg, battery_in, battery_info,
                   last_adv, first_q, n_qual, n_adv, call_qual, calls,
                   sessions, backoffs, windows, leaked>>

\* get_status: lines 145-148, after find_airpods returned.  A captured
\* payload is decoded and returned; an exception that leaves decode_status
\* leaves get_status too and reaches the handler of main.
GetStatusCheck ==
    /\ pc = "got"
    /\ IF ReturnsStatus(hex_data, attempt, max_attempts)
       THEN /\ \E now \in Clock :
                   \E o \in DecodeStatusOutcomes(TheVal(hex_data), debug, now) :
                      /\ result' = o
                      /\ pc' \in IF o # None THEN {"returned"}
                                 ELSE MainExcept(interval)
            /\ decoder_arg' = DecoderCall(TheVal(hex_data))
            /\ UNCHANGED <<attempt, backoffs>>
       ELSE IF NeedsBackoff(attempt, max_attempts)
       THEN /\ pc' = "backoff"
            /\ backoffs' = backoffs + 1
            /\ UNCHANGED <<attempt, result, decoder_arg>>
       ELSE /\ pc' = "for"
            /\ attempt' = attempt + 1
            /\ UNCHANGED <<backoffs, result, decoder_arg>>
    /\ UNCHANGED <<all_failed, stop_requested,
                   debug, found_device, found_data, interval, max_attempts,
                   hex_data, scanner, exit_path, battery_in, battery_info,
                   last_adv, first_q, n_qual, n_adv, call_qual, calls,
                   sessions, windows, leaked>>

\* get_status: await asyncio.sleep(1) completes; the loop moves on
BackoffElapses ==
    /\ ~stop_requested
    /\ pc = "backoff"
    /\ attempt' = attempt + 1
    /\ pc' = "for"
    /\ UNCHANGED <<all_failed, stop_requested,
                   debug, found_device, found_data, interval, max_attempts,
                   hex_data, scanner, exit_path, result, decoder_arg,
                   battery_in, battery_info, last_adv, first_q, n_qual, n_adv,
                   call_qual, calls, sessions, backoffs, windows, leaked>>

\* main: lines 202-210, the status is printed; break or wait for the
\* interval.  When a print raises (the output is closed, say), the handler
\* of lines 214-222 prints the error and breaks or waits one second; when
\* that print raises as well, the exception ends main.
MainOutput ==
    /\ pc = "returned"
    /\ \/ pc' = IF interval = 0 THEN "exit" ELSE "interval"
       \/ pc' = IF interval = 0 THEN "exit" ELSE "error_wait"
       \/ pc' = "exit"
    /\ UNCHANGED <<all_failed, stop_requested,
                   debug, found_device, found_data, interval, max_attempts,
                   attempt, hex_data, scanner, exit_path, result, decoder_arg,
                   battery_in, battery_info, last_adv, first_q, n_qual, n_adv,
                   call_qual, calls, sessions, backoffs, windows, leaked>>

\* main: await asyncio.sleep(1) of line 222 completes
ErrorWaitElapses ==
    /\ ~stop_requested
    /\ pc = "error_wait"
    /\ pc' = "main"
    /\ UNCHANGED <<all_failed, stop_requested,
                   debug, found_device, found_data, interval, max_attempts,
                   attempt, hex_data, scanner, exit_path, result, decoder_arg,
                   battery_in, battery_info, last_adv, first_q, n_qual, n_adv,
                   call_qual, calls, sessions, backoffs, windows, leaked>>

\* main: KeyboardInterrupt raised while the main task runs synchronous code
\* (such as the print of line 205); no except clause of get_status or
\* find_airpods catches it, and lines 211-213 print 'Stopping...' and break.
\* The task also runs synchronous code right after an await of find_airpods
\* has resumed it (lines 62, 63, 65): interrupted there, main ends with the
\* scanner as that await left it.  Interrupted at line 61, the scanner has
\* been built and not started; interrupted inside decode_status, the decoder
\* may have been called and no result exists.  Under asyncio.run the first
\* SIGINT of such a stretch requests the cancellation and the second raises
\* the KeyboardInterrupt, so the request may be pending when main ends.
KeyboardInterruptCaught ==
    /\ \/ /\ pc \in InTry
          /\ UNCHANGED <<scanner, windows, decoder_arg, sessions, leaked,
                         exit_path, hex_data, last_adv, first_q, n_qual,
                         n_adv>>
       \/ /\ pc = "for"
          /\ LoopContinues(attempt, max_attempts)
          /\ sessions' = sessions + 1
          /\ leaked' = (leaked \/ scanner = "running")
          /\ scanner' = "created"
          /\ exit_path' = "none"
          /\ hex_data' = None
          /\ last_adv' = None
          /\ first_q' = None
          /\ n_qual' = 0
          /\ n_adv' = 0
          /\ windows' = 0
          /\ UNCHANGED decoder_arg
       \/ /\ pc = "got"
          /\ ReturnsStatus(hex_data, attempt, max_attempts)
          /\ decoder_arg' = DecoderCall(TheVal(hex_data))
          /\ UNCHANGED <<scanner, windows, sessions, leaked, exit_path,
                         hex_data, last_adv, first_q, n_qual, n_adv>>
       \/ /\ pc = "start"
          /\ scanner' = "running"
          /\ UNCHANGED <<windows, decoder_arg, sessions, leaked, exit_path,
                         hex_data, last_adv, first_q, n_qual, n_adv>>
       \/ /\ pc = "sleep12"
          /\ ~stop_requested
          /\ windows' = windows + 1
          /\ UNCHANGED <<scanner, decoder_arg, sessions, leaked, exit_path,
                         hex_data, last_adv, first_q, n_qual, n_adv>>
       \/ /\ pc = "stop"
          /\ scanner' = AfterStop(scanner)
          /\ UNCHANGED <<windows, decoder_arg, sessions, leaked, exit_path,
                         hex_data, last_adv, first_q, n_qual, n_adv>>
    /\ stop_requested' \in {stop_requested, TRUE}
    /\ pc' = "exit"
    /\ UNCHANGED <<all_failed, debug, found_device, found_data, interval,
                   max_attempts, attempt, result, battery_in, battery_info,
                   call_qual, calls, backoffs>>

\* main: await asyncio.sleep(args.interval) completes
IntervalElapses ==
    /\ ~stop_requested
    /\ pc = "interval"
    /\ pc' = "main"
    /\ UNCHANGED <<all_failed, stop_requested,
                   debug, found_device, found_data, interval, max_attempts,
                   attempt, hex_data, scanner, exit_path, result, decoder_arg,
                   battery_in, battery_info, last_adv, first_q, n_qual, n_adv,
                   call_qual, calls, sessions, backoffs, windows, leaked>>

\* a stop request (SIGINT under asyncio.run): the cancellation of the main
\* task is requested, wherever the task is
StopRequest ==
    /\ pc \notin Ended
    /\ ~stop_requested
    /\ stop_requested' = TRUE
    /\ UNCHANGED <<all_failed, debug, found_device, found_data, pc, interval,
                   max_attempts, attempt, hex_data, scanner, exit_path,
                   result, decoder_arg, battery_in, battery_info, last_adv,
                   first_q, n_qual, n_adv, call_qual, calls, sessions,
                   backoffs, windows, leaked>>

\* the requested cancellation raises CancelledError at the await where the
\* task is suspended, or where it suspends next: CancelledError is not an
\* Exception, so no except clause of the program catches it
Cancel ==
    /\ stop_requested
    /\ pc \in AwaitPoints
    /\ exit_path' = IF pc \in InSession THEN "cancelled" ELSE exit_path
    /\ pc' = "cancelled"
    /\ UNCHANGED <<all_failed, stop_requested,
                   debug, found_device, found_data, interval,
                   max_attempts,
                   attempt, hex_data, scanner, result, decoder_arg,
                   battery_in, battery_info, last_adv, first_q, n_qual, n_adv,
                   call_qual, calls, sessions, backoffs, windows, leaked>>

Next ==
    \/ \E n \in 0..MaxAttempts : CallGetStatus(n)
    \/ ForStep
    \/ ScannerCtorFails
    \/ StartOk
    \/ StartFails
    \/ \E adv \in Advs : Deliver(adv)
    \/ \E adv \in Advs : DeliverInterrupted(adv)
    \/ WindowElapses
    \/ StopOk
    \/ StopFails
    \/ GetStatusCheck
    \/ BackoffElapses
    \/ MainOutput
    \/ KeyboardInterruptCaught
    \/ IntervalElapses
    \/ ErrorWaitElapses
    \/ StopRequest
    \/ Cancel

Spec == Init /\ [][Next]_vars

\* get_status going on after find_airpods has returned: the step that leaves
\* pc = "got" for the return, the backoff or the next iteration.  Of the
\* actions only GetStatusCheck takes it, and GetStatusCheck is enabled
\* whenever pc = "got".
GetStatusResumes == pc = "got" /\ pc' \in {"returned", "backoff", "for"}

\* The event loop resumes the main task when what it awaits completes: the
\* scanner answers start and stop (or raises), the timers expire and a
\* requested cancellation is raised; code between two awaits runs on.
LiveSpec ==
    /\ Spec
    /\ WF_vars(ForStep)
    /\ WF_vars(StartOk \/ StartFails)
    /\ WF_vars(WindowElapses)
    /\ WF_vars(StopOk \/ StopFails)
    /\ WF_pc(GetStatusResumes)
    /\ WF_vars(BackoffElapses)
    /\ WF_vars(Cancel)

---------------------------------------------------------------------------
(* The methods of AirPodsMonitor called on their own, with arguments drawn  *)
(* from the input sets. hex_data, result and decoder_arg then describe the  *)
(* last decode_status call, battery_in and battery_info the last decoder    *)
(* call, last_adv the last detection_callback call. The two decoders leave  *)
(* the monitor as it is, so a run makes one decoder call between two        *)
(* callbacks: a second one in a row would start from the same monitor.      *)

\* (byte 12, byte 14, every other byte after the first)
TestBytes == {<<5, 128, 0>>, <<5, 128, 255>>, <<15, 0, 255>>, <<15, 0, 0>>,
              <<160, 127, 0>>, <<63, 255, 255>>}

TestPayloads ==
    {MkPayload(len, b0, t[1], t[2], t[3]) :
        len \in {0, 12, 13, 15, 26, 27, 28},
        b0 \in {18, 7},
        t \in TestBytes}

Upper(s) == [k \in 1..Len(s) |-> IF s[k] >= 97 THEN s[k] - 32 ELSE s[k]]

MalformedHex ==
    { <<97, 98, 99>>,                              \* "abc"
      <<122, 122>>,                                \* "zz"
      <<49, 103>>,                                 \* "1g"
      <<49, 32, 50>>,                              \* "1 2"
      <<255, 49, 50>>,                             \* not UTF-8
      SubSeq(Hexlify(PayloadA), 1, 53) }           \* one digit short

SpacedHex ==
    { <<49, 50, 32, 51, 52>>,                      \* "12 34"
      <<32>> \o Hexlify(PayloadA) \o <<10>>,
      SubSeq(Hexlify(PayloadB), 1, 2) \o <<32, 9>> \o SubSeq(Hexlify(PayloadB), 3, 54),
      Upper(Hexlify(PayloadB)) }

HexInputs == {Hexlify(p) : p \in TestPayloads} \cup MalformedHex \cup SpacedHex

InitApi ==
    /\ debug \in BOOLEAN
    /\ interval = 0
    /\ found_device = None
    /\ found_data = None
    /\ pc = "api"
    /\ max_attempts = 0
    /\ attempt = 0
    /\ hex_data = None
    /\ scanner = "none"
    /\ exit_path = "none"
    /\ result = None
    /\ decoder_arg = None
    /\ battery_in = None
    /\ battery_info = None
    /\ last_adv = None
    /\ first_q = None
    /\ n_qual = 0
    /\ n_adv = 0
    /\ call_qual = FALSE
    /\ calls = 0
    /\ sessions = 0
    /\ backoffs = 0
    /\ windows = 0
    /\ leaked = FALSE
    /\ all_failed = TRUE
    /\ stop_requested = FALSE

\* monitor.detection_callback(device, advertisement_data), called with an
\* output that can be written to
ApiCallback(adv) ==
    /\ pc = "api"
    /\ last_adv' = Some(adv)
    /\ found_device' = FoundDeviceAfter(found_device, adv)
    /\ found_data' = FoundDataAfter(found_data, adv)
    /\ hex_data' = None
    /\ result' = None
    /\ decoder_arg' = None
    /\ battery_in' = None
    /\ battery_info' = None
    /\ UNCHANGED <<all_failed, stop_requested,
                   debug, pc, interval, max_attempts, attempt, scanner,
                   exit_path, first_q, n_qual, n_adv, call_qual, calls,
                   sessions, backoffs, windows, leaked>>

\* monitor.decode_status(hex_data), called with an output that can be
\* written to
ApiDecodeStatus(h, now) ==
    /\ pc = "api"
    /\ hex_data = None /\ battery_in = None
    /\ hex_data' = Some(h)
    /\ result' = Some(decode_status(h, debug, now))
    /\ decoder_arg' = DecoderCall(h)
    /\ last_adv' = None
    /\ battery_in' = None
    /\ battery_info' = None
    /\ UNCHANGED <<all_failed, stop_requested,
                   debug, found_device, found_data, pc, interval, max_attempts,
                   attempt, scanner, exit_path, first_q, n_qual, n_adv,
                   call_qual, calls, sessions, backoffs, windows, leaked>>

\* monitor.decode_airpods_max_battery(data), called with an output that can
\* be written to
ApiDecodeBattery(data) ==
    /\ pc = "api"
    /\ hex_data = None /\ battery_in = None
    /\ battery_in' = Some(data)
    /\ battery_info' = Some(decode_airpods_max_battery(data))
    /\ last_adv' = None
    /\ hex_data' = None
    /\ result' = None
    /\ decoder_arg' = None
    /\ UNCHANGED <<all_failed, stop_requested,
                   debug, found_device, found_data, pc, interval, max_attempts,
                   attempt, scanner, exit_path, first_q, n_qual, n_adv,
                   call_qual, calls, sessions, backoffs, windows, leaked>>

NextApi ==
    \/ \E adv \in ApiAdvs : ApiCallback(adv)
    \/ \E h \in HexInputs, now \in Clock : ApiDecodeStatus(h, now)
    \/ \E data \in TestPayloads : ApiDecodeBattery(data)

SpecApi == InitApi /\ [][NextApi]_vars

\* the program and the methods on their own, side by side
InitAll == Init \/ InitApi

NextAll == Next \/ NextApi

SpecAll == InitAll /\ [][NextAll]_vars

---------------------------------------------------------------------------
(* The claims. *)

Shaped(p) == Len(p) = 27 /\ p[1] = 18

Max(a, b) == IF a > b THEN a ELSE b

\* C1: within one session the first qualifying advertisement is the match:
\* a later qualifying advertisement leaves found_data unchanged, and a
\* session that saw two or more returns the payload of the first (stated
\* for a monitor without debug, whose callback no print can cut short).
C1_FirstMatchWins ==
    ~debug =>
        /\ (pc \in {"sleep12", "stop"} /\ n_qual >= 1) => found_data = first_q
        /\ (pc = "got" /\ exit_path = "captured" /\ n_qual >= 2)
               => hex_data = Some(Hexlify(TheVal(first_q)))

\* C2: on a fresh monitor, when no qualifying advertisement is delivered,
\* get_status(n) returns the not-found result after exactly n sessions and
\* max(n-1, 0) back-off waits, one wait between two consecutive sessions and
\* none after the last.
C2_NotFoundAfterAllAttempts ==
    (calls = 1 /\ ~call_qual) =>
        /\ pc = "returned" =>
              /\ sessions = max_attempts
              /\ backoffs = Max(max_attempts - 1, 0)
              /\ result = Some([status |-> 0, error |-> "AirPods Max not found"])
        /\ pc \in InSession \cup {"got"} => backoffs = sessions - 1
        /\ pc = "backoff" => backoffs = sessions /\ sessions < max_attempts
        /\ pc \in {"for", "start", "sleep12", "stop", "got", "backoff"}
              => result = None /\ sessions <= max_attempts

C2_Witness ==
    /\ pc = "returned" /\ calls = 1 /\ ~call_qual
    /\ max_attempts = 3 /\ sessions = 3 /\ backoffs = 2
    /\ result = Some(NotFound)

\* C3: when a session returns a captured payload, the next step of
\* get_status decodes that payload and returns, starting no session and no
\* back-off wait; so a capture in attempt k returns after k+1 sessions and k
\* back-off waits.  (A KeyboardInterrupt ends main instead; the arrival of
\* a stop request is no step of get_status.)  Only with debug, when a print
\* of the decoding raises, is the result returned another one (the sentinel
\* reading or the error of the print), or does the exception of the print
\* end the call; no session and no back-off follows then either.
C3_ReturnsOnFirstCapture ==
    /\ [](pc = "returned" /\ result # None /\ TheVal(result).status = 1
              => sessions = attempt + 1 /\ backoffs = attempt)
    /\ [][(pc = "got" /\ hex_data # None /\ pc' \notin {"got", "exit"}) =>
              /\ sessions' = sessions
              /\ backoffs' = backoffs
              /\ scanner' = scanner
              /\ attempt' = attempt
              /\ decoder_arg' = found_data
              /\ \/ /\ pc' = "returned"
                    /\ \E now \in Clock :
                          result' = Some(decode_status(TheVal(hex_data), debug,
                                                       now))
                    /\ TheVal(result').status = 1
                    /\ TheVal(result').battery.left
                          = TheVal(found_data)[13] % 16
                 \/ /\ debug
                    /\ pc' = "returned"
                    /\ \/ /\ TheVal(result').status = 1
                          /\ TheVal(result').battery.left = -1
                       \/ result' = Some([status |-> 0,
                                          error |-> "[Errno 32] Broken pipe"])
                 \/ /\ debug
                    /\ pc' = "error_wait"
                    /\ result' = None]_vars

C3_Witness ==
    /\ pc = "returned" /\ result # None /\ TheVal(result).status = 1
    /\ max_attempts = 3 /\ attempt = 1 /\ sessions = 2 /\ backoffs = 1

\* C4: a session returns None when no qualifying advertisement was
\* delivered during it (stated for sessions of a call in which none was
\* delivered at all, with every earlier scanner stopped).
C4_NoCarryOver ==
    (pc = "got" /\ ~call_qual /\ n_qual = 0 /\ ~leaked) => hex_data = None

\* C5: once find_airpods has returned through the Captured or the TimedOut
\* path, the scanner of that session is stopped.
C5_StoppedOnNormalExit ==
    (/\ pc \in {"got", "backoff", "for", "returned", "interval", "error_wait",
              "main", "exit"}
     /\ exit_path \in {"captured", "timedout"})
        => scanner = "stopped"

C5_Witness ==
    pc = "got" /\ exit_path = "captured" /\ n_qual = 1 /\ scanner = "stopped"

\* C6: no scanner is running once find_airpods has exited, whichever way
\* the session ended.
C6_ScannerNeverOutlivesSession ==
    pc \notin InSession => scanner # "running"

\* C7: a payload that is not 27 bytes long starting with 0x12 is never
\* recorded by detection_callback and never handed to the battery decoder,
\* and decode_status answers it with a status-0 result.
C7_OnlyShapedPayloadsDecoded ==
    /\ found_data # None => Shaped(TheVal(found_data))
    /\ decoder_arg # None => Shaped(TheVal(decoder_arg))
    /\ (result # None /\ hex_data # None
           /\ ~(decoder_arg = None /\ TheVal(result).status = 0))
          => \A p \in TestPayloads :
                 ~Shaped(p) => hex_data # Some(Hexlify(p))

C7_Witness ==
    /\ pc = "api"
    /\ hex_data = Some(Hexlify(MkPayload(27, 7, 5, 128, 0)))
    /\ result = Some([status |-> 0, error |-> "Unsupported device type"])
    /\ decoder_arg = None

\* C8: for a payload of 27 bytes starting with 0x12 the decoder returns
\* left = right = low nibble of byte 12, both charging flags = bit 0x80 of
\* byte 14, case and charging.case null, whatever the other bytes are.
C8_DecodedFields ==
    (battery_in # None /\ Shaped(TheVal(battery_in))) =>
        LET d == TheVal(battery_in)
            b == TheVal(battery_info)
        IN /\ b = [left |-> d[13] % 16, right |-> d[13] % 16, case |-> None,
                   charging |-> [left |-> d[15] >= 128, right |-> d[15] >= 128,
                                 case |-> None]]
           /\ (d[13] = 5 /\ d[15] = 128) =>
                  /\ b.left = 5 /\ b.right = 5
                  /\ b.charging.left /\ b.charging.right
           /\ (d[13] = 15 /\ d[15] = 0) =>
                  /\ b.left = 15 /\ b.right = 15
                  /\ ~b.charging.left /\ ~b.charging.right

C8_Witness ==
    /\ battery_in = Some(MkPayload(27, 18, 160, 127, 0))
    /\ TheVal(battery_info).left = 0
    /\ ~TheVal(battery_info).charging.left

\* C9: a payload too short for offsets 12 and 14 makes the decoder return
\* the sentinel (-1, charging false) rather than raise or report 0; the
\* status result decode_status produces for such a payload is a status-0
\* error result, the decoder not being called; and a status-1 result
\* carries the sentinel for no short payload: only with debug, when a
\* print of the decoder raised, and then for a payload of full length.
C9_ShortPayloadFailsExplicitly ==
    /\ (battery_in # None /\ Len(TheVal(battery_in)) < 15) =>
           battery_info =
               Some([left |-> -1, right |-> -1, case |-> None,
                     charging |-> [left |-> FALSE, right |-> FALSE,
                                   case |-> None]])
    /\ (/\ pc = "api" /\ hex_data # None /\ result # None
        /\ Len(TheVal(hex_data)) < 30 /\ Len(TheVal(hex_data)) % 2 = 0
        /\ \A k \in 1..Len(TheVal(hex_data)) : IsHex(TheVal(hex_data)[k]))
           => /\ TheVal(result) = [status |-> 0,
                                   error |-> "Unsupported device type"]
              /\ decoder_arg = None
    /\ (/\ result # None /\ TheVal(result).status = 1
        /\ \/ TheVal(result).battery.left < 0
           \/ TheVal(result).battery.right < 0)
           => /\ debug
              /\ pc # "api"
              /\ decoder_arg # None
              /\ Len(TheVal(decoder_arg)) = 27
              /\ TheVal(result).battery.left = -1
              /\ TheVal(result).battery.right = -1

C9_Witness ==
    /\ battery_in # None /\ Len(TheVal(battery_in)) = 13
    /\ TheVal(battery_in)[13] = 5
    /\ TheVal(battery_info).left = -1 /\ TheVal(battery_info).right = -1
    /\ ~TheVal(battery_info).charging.left

\* C10: a result has status 0 or 1; with status 0 it has an error and no
\* model, battery or charging; with status 1 it has model, battery and
\* charging and no error.
C10_ResultShape ==
    result # None =>
        LET r == TheVal(result) IN
        /\ r.status \in {0, 1}
        /\ r.status = 0 =>
              /\ "error" \in DOMAIN r
              /\ DOMAIN r \cap {"model", "battery", "charging"} = {}
        /\ r.status = 1 =>
              /\ {"model", "battery", "charging"} \subseteq DOMAIN r
              /\ "error" \notin DOMAIN r

C10_Witness ==
    /\ pc = "returned" /\ result # None
    /\ TheVal(result).status = 0
    /\ TheVal(result).error = "AirPods Max not found"
    /\ max_attempts = 2 /\ sessions = 2

\* C11: a reported battery value is in 0..100 or is -1, left equals right,
\* case is null, and 0 is reported only for a payload whose byte 12 has a
\* zero low nibble.
C11_BatteryRange ==
    (result # None /\ TheVal(result).status = 1) =>
        LET b == TheVal(result).battery IN
        /\ b.left \in (0..100) \cup {-1}
        /\ b.right \in (0..100) \cup {-1}
        /\ b.left = b.right
        /\ b.case = None
        /\ b.left = 0 =>
              decoder_arg # None /\ TheVal(decoder_arg)[13] % 16 = 0

C11_Witness ==
    /\ result # None /\ TheVal(result).status = 1
    /\ TheVal(result).battery.left = 0
    /\ decoder_arg # None /\ TheVal(decoder_arg)[13] = 160

\* C12: an advertisement weaker than MIN_RSSI never becomes the match.
C12_WeakSignalDiscarded ==
    (last_adv # None /\ TheVal(last_adv).rssi < MIN_RSSI)
        => found_device # Some(TheVal(last_adv).device)

\* C13: a session that captured a qualifying advertisement returns the
\* match without waiting for the scan window to elapse.
C13_LeavesOnCapture ==
    (pc = "got" /\ exit_path = "captured" /\ n_qual >= 1) => windows = 0

\* C14: on a fresh monitor a session that gets no qualifying advertisement
\* and no failure returns None when the scan window has elapsed exactly
\* once, whatever other advertisements arrived.
C14_NoneAfterOneWindow ==
    (calls = 1 /\ ~call_qual) =>
        /\ pc = "sleep12" => windows = 0
        /\ pc = "stop" => windows = 1
        /\ (pc = "got" /\ exit_path # "except") =>
              /\ hex_data = None
              /\ exit_path = "timedout"
              /\ windows = 1

C14_Witness ==
    /\ calls = 1 /\ ~call_qual /\ pc = "got" /\ exit_path = "timedout"
    /\ hex_data = None /\ windows = 1
    /\ n_adv = 2 /\ last_adv = Some(AdvMarker)

\* C15: a session that fails (start or stop raises) returns None and counts
\* as one attempt: the back-off follows unless it was the last attempt, the
\* remaining attempts run, no call starts more than max_attempts sessions,
\* and a call whose sessions all failed returns the not-found result.  (A
\* KeyboardInterrupt, which ends main, is no consequence of the failure.)
\* The step of the failure hands None to get_status; only with debug, when
\* the print of the except clause raises, does that exception leave
\* get_status.
C15_FailureCountsAsAttempt ==
    /\ [](/\ sessions <= max_attempts
          /\ (pc = "got" /\ exit_path = "except")
                 => hex_data = None /\ result = None
          /\ (pc = "returned" /\ all_failed) =>
                 /\ result = Some([status |-> 0,
                                   error |-> "AirPods Max not found"])
                 /\ sessions = max_attempts
                 /\ backoffs = Max(max_attempts - 1, 0))
    /\ [][(pc = "got" /\ exit_path = "except" /\ pc' \notin {"got", "exit"}) =>
              \/ /\ attempt < max_attempts - 1
                 /\ pc' = "backoff"
                 /\ backoffs' = backoffs + 1
              \/ /\ attempt = max_attempts - 1
                 /\ pc' = "for"
                 /\ attempt' = max_attempts]_vars
    /\ [][(exit_path # "except" /\ exit_path' = "except") =>
              /\ hex_data' = None
              /\ result' = None
              /\ attempt' = attempt
              /\ sessions' <= max_attempts
              /\ \/ pc' = "got"
                 \/ debug /\ pc' \in {"error_wait", "exit"}]_vars

C15_Witness ==
    /\ pc = "returned" /\ all_failed /\ call_qual
    /\ max_attempts = 3 /\ sessions = 3 /\ backoffs = 2
    /\ result = Some(NotFound)

\* C16: no session is in progress while the scanner of an earlier session
\* is still running.
C16_OneScannerAtATime ==
    pc \in InSession => ~leaked

Vendor76Unshaped(adv) ==
    /\ AIRPODS_MANUFACTURER \in DOMAIN adv.manufacturer_data
    /\ ~Shaped(adv.manufacturer_data[AIRPODS_MANUFACTURER])

\* C17 as stated: a call on a fresh monitor whose last advertisement carried
\* vendor-76 data of the wrong shape, and that got no qualifying one,
\* returns the outcome 'Unsupported device type'.
C17_UnsupportedSurfaced ==
    (/\ pc = "returned" /\ calls = 1 /\ ~call_qual
     /\ last_adv # None /\ Vendor76Unshaped(TheVal(last_adv)))
        => TheVal(result).error = "Unsupported device type"

\* C17 as amended: vendor-76 data of the wrong shape is ignored: no match is
\* recorded (the first advertisement of a fresh monitor leaves it without
\* one), every attempt is still performed, and the call returns the
\* not-found result when no qualifying advertisement arrived.
C17_UnsupportedIgnored ==
    /\ (/\ calls = 1 /\ sessions = 1 /\ n_adv = 1
        /\ last_adv # None /\ Vendor76Unshaped(TheVal(last_adv)))
           => found_data = None /\ found_device = None
    /\ (/\ calls = 1 /\ ~call_qual
        /\ last_adv # None /\ Vendor76Unshaped(TheVal(last_adv)))
           => /\ found_data = None /\ found_device = None
              /\ pc = "returned" =>
                    /\ result = Some([status |-> 0,
                                      error |-> "AirPods Max not found"])
                    /\ sessions = max_attempts
                    /\ backoffs = Max(max_attempts - 1, 0)

C17_Witness ==
    /\ pc = "returned" /\ calls = 1 /\ ~call_qual
    /\ last_adv = Some(AdvMarker)
    /\ max_attempts = 3 /\ sessions = 3
    /\ result = Some(NotFound)

\* C18: once a stop request has arrived in the polling loop, no scan session
\* and no get_status call is started any more.
C18_StopRequestTakesEffect ==
    [][(stop_requested /\ calls >= 1) =>
           sessions' = sessions /\ calls' = calls]_vars

\* C19: an advertisement without vendor-76 data, or with vendor-76 data of
\* the wrong shape, leaves found_device and found_data as they were.
C19_NonQualifyingLeavesMatch ==
    [][(/\ last_adv' # None
        /\ n_adv' = n_adv + 1 \/ pc = "api"
        /\ LET md == TheVal(last_adv').manufacturer_data IN
           \/ AIRPODS_MANUFACTURER \notin DOMAIN md
           \/ ~Shaped(md[AIRPODS_MANUFACTURER]))
          => found_data' = found_data /\ found_device' = found_device]_vars

C19_Witness ==
    /\ last_adv = Some(AdvShort) /\ n_adv = 2
    /\ found_data = Some(PayloadA) /\ found_device = Some("AA")
    /\ n_qual = 1 /\ calls = 1

\* C20: get_status returns, unless the task ends cancelled or main is ended
\* by a KeyboardInterrupt, with one status result, after at most
\* max_attempts sessions and max_attempts - 1 back-off waits.  Only with
\* debug, when a print raises in an except clause, does the call end with
\* the exception of that print instead, which main handles.
C20_GetStatusTerminates ==
    /\ [](/\ sessions <= max_attempts
          /\ backoffs <= Max(max_attempts - 1, 0)
          /\ pc \in {"for", "start", "sleep12", "stop", "got", "backoff"}
                 => result = None
          /\ pc = "returned" =>
                 result # None /\ TheVal(result).status \in {0, 1})
    /\ (pc = "for") ~> \/ pc \in {"returned", "cancelled", "exit"}
                       \/ debug /\ pc = "error_wait" /\ result = None

C20_Witness ==
    /\ pc = "returned" /\ TheVal(result).status = 1
    /\ max_attempts = 3 /\ sessions = 3 /\ backoffs = 2
    /\ ~all_failed

=============================================================================
